---- MODULE Spec2Model ----
(***************************************************************************)
(* yaml-inventory.py: the inventory graph built from a YAML document       *)
(* (parse_yaml, parse_group, parse_host) and the two queries read from it  *)
(* (list mode, host mode).                                                 *)
(*                                                                         *)
(* Python objects are modelled by their position in a heap: a Group is its *)
(* index in globals.groups, a Host its index in the heap `hosts` (creation *)
(* order).  A `vars` dictionary is a function from keys to values; a value *)
(* is [scalar |-> s] or [dict |-> f].  A YAML node is a record: a bare     *)
(* string is [str |-> s], a mapping is the record of its keys.             *)
(***************************************************************************)
EXTENDS Integers, Sequences, FiniteSets, TLC

VARIABLES
    groups,   \* globals.groups: the Group objects, in creation order
    hosts,    \* the Host objects, in creation order
    entry,    \* parse_yaml's loop variable: the top-level node parsed last
    count,    \* how many top-level nodes of the document have been parsed
    pc,       \* "parse": in parse_yaml's loop, "exit": the process has ended
    fault,    \* the exception that ended the process, or NoFault
    result    \* what the query printed (before json.dumps), or NoResult

vars == <<groups, hosts, entry, count, pc, fault, result>>

\* Length of the document (number of top-level nodes).
MaxEntries == 3
\* Python's recursion limit (sys.getrecursionlimit()), scaled down.
RecursionLimit == 7

None == 0
NoFault == "none"
NoEntry == [none |-> "none"]
NoResult == [none |-> "none"]

\* The positions of globals.all_hosts and globals.meta in globals.groups.
all_hosts == 1
meta == 2

-----------------------------------------------------------------------------
(* Python values *)

Scalar(s) == [scalar |-> s]
Dict(f) == [dict |-> f]
\* type(v) == dict
IsDict(v) == "dict" \in DOMAIN v

\* x in list
Mem(x, seq) == \E i \in 1..Len(seq) : seq[i] = x

\* d[k] = v
Put(d, k, v) == [x \in (DOMAIN d) \cup {k} |-> IF x = k THEN v ELSE d[x]]

\* d.update(e)
Update(d, e) == [x \in (DOMAIN d) \cup (DOMAIN e) |-> IF x \in DOMAIN e THEN e[x] ELSE d[x]]

\* type(entry) in [str, unicode]
IsStr(e) == "str" \in DOMAIN e

\* The keywords parse_group tests that occur inside a name as a substring
\* (Python's `in` on a string is a substring test).
KeywordsIn(name) == IF name = "webhosts" THEN {"hosts"} ELSE {}

\* key in entry: key membership for a mapping, substring test for a string
HasKey(e, key) == IF IsStr(e) THEN key \in KeywordsIn(e.str) ELSE key \in DOMAIN e

\* An exception leaves the heap as it is and ends the process.
Raise(s, exc) == [s EXCEPT !.fault = exc]

-----------------------------------------------------------------------------
(* class Group, class Host *)

Group(name) == [name |-> name, hosts |-> <<>>, vars |-> <<>>, children |-> <<>>, parents |-> <<>>]

\* Host.add_group
Host_add_group(s, self, group) ==
    IF Mem(group, s.hosts[self].groups) THEN s
    ELSE [s EXCEPT !.hosts[self].groups = Append(@, group)]

\* Group.add_host without its `if host not in self.hosts` test
Group_add_host_unchecked(s, self, host) ==
    Host_add_group([s EXCEPT !.groups[self].hosts = Append(@, host)], host, self)

\* Group.add_host
Group_add_host(s, self, host) ==
    IF Mem(host, s.groups[self].hosts) THEN s
    ELSE Host_add_group([s EXCEPT !.groups[self].hosts = Append(@, host)], host, self)

\* Host(name): the new object is the last of the heap
Host(s, name) ==
    LET self == Len(s.hosts) + 1
        s1 == [s EXCEPT !.hosts = Append(@, [name |-> name, groups |-> <<>>, vars |-> <<>>])]
    IN  [Group_add_host(Group_add_host(s1, all_hosts, self), meta, self) EXCEPT !.ret = self]

RECURSIVE Group_add_child(_, _, _), Group_add_parent(_, _, _)

\* Group.add_child
Group_add_child(s, self, group) ==
    LET g == IF s.groups[group].name = "all" THEN meta ELSE group
    IN  IF Mem(g, s.groups[self].children) THEN s
        ELSE Group_add_parent([s EXCEPT !.groups[self].children = Append(@, g)], g, self)

\* Group.add_parent
Group_add_parent(s, self, group) ==
    IF Mem(group, s.groups[self].parents) THEN s
    ELSE Group_add_child([s EXCEPT !.groups[self].parents = Append(@, group)], group, self)

\* Group.set_variable / Host.set_variable; obj is <<"group", id>> or <<"host", id>>
set_variable(s, obj, key, value) ==
    IF obj[2] = None THEN Raise(s, "AttributeError")
    ELSE IF obj[1] = "group" THEN [s EXCEPT !.groups[obj[2]].vars = Put(@, key, value)]
    ELSE [s EXCEPT !.hosts[obj[2]].vars = Put(@, key, value)]

-----------------------------------------------------------------------------
(* the store *)

Min(S) == CHOOSE x \in S : \A y \in S : x <= y

\* find_group(name, groups)
find_group(name, gs) ==
    LET found == {i \in 1..Len(gs) : gs[i].name = name}
    IN  IF found = {} THEN None ELSE Min(found)

\* find_host(name): searches the members of globals.all_hosts
find_host(name, s) ==
    LET members == s.groups[all_hosts].hosts
        found == {i \in 1..Len(members) : s.hosts[members[i]].name = name}
    IN  IF found = {} THEN None ELSE members[Min(found)]

-----------------------------------------------------------------------------
(* variables *)

\* The variable files import_vars can open: file name -> the document yaml.load
\* returns for it.  Any other name cannot be opened.
Files == [vars_yml |-> [list |-> << <<"x", Scalar("1")>> >>]]

RECURSIVE parse_vars_list(_, _, _, _)
\* parse_vars, the list branch: vars[i..] in order, one single-key mapping each
parse_vars_list(s, items, i, obj) ==
    IF s.fault # NoFault \/ i > Len(items) THEN s
    ELSE parse_vars_list(set_variable(s, obj, items[i][1], items[i][2]), items, i + 1, obj)

\* parse_vars(vars, obj): vars is a mapping or a list of single-key mappings
parse_vars(s, vs, obj) ==
    IF "dict" \in DOMAIN vs THEN
        IF DOMAIN vs.dict = {} THEN s
        ELSE IF obj[2] = None THEN Raise(s, "AttributeError")
        ELSE IF obj[1] = "group" THEN [s EXCEPT !.groups[obj[2]].vars = Update(@, vs.dict)]
        ELSE [s EXCEPT !.hosts[obj[2]].vars = Update(@, vs.dict)]
    ELSE IF "list" \in DOMAIN vs THEN parse_vars_list(s, vs.list, 1, obj)
    ELSE s

RECURSIVE import_vars_from(_, _, _, _)
\* import_vars(vars, obj): each file is opened and parsed in turn
import_vars_from(s, files, i, obj) ==
    IF s.fault # NoFault \/ i > Len(files) THEN s
    ELSE IF files[i] \notin DOMAIN Files THEN Raise(s, "IOError")
    ELSE import_vars_from(parse_vars(s, Files[files[i]], obj), files, i + 1, obj)

import_vars(s, files, obj) == import_vars_from(s, files, 1, obj)

-----------------------------------------------------------------------------
(* parse_group, parse_host *)

\* Group(...) appended to globals.groups whatever find_group finds
GetOrCreateGroup_always_new(s, name) ==
    [s EXCEPT !.groups = Append(@, Group(name)), !.ret = Len(s.groups) + 1]

\* find_group(...), and Group(...) appended to globals.groups when it finds none
GetOrCreateGroup(s, name) ==
    LET g == find_group(name, s.groups)
    IN  IF g # None THEN [s EXCEPT !.ret = g]
        ELSE [s EXCEPT !.groups = Append(@, Group(name)), !.ret = Len(s.groups) + 1]

\* find_host(...), and Host(...) when it finds none
GetOrCreateHost(s, name) ==
    LET h == find_host(name, s)
    IN  IF h # None THEN [s EXCEPT !.ret = h] ELSE Host(s, name)

\* return value: the state with `ret` set
Return(s, value) == [s EXCEPT !.ret = value]

\* One `if key in entry:` block of parse_group or parse_host.  A string that
\* holds the key as a substring is subscripted with it: TypeError.
Clause(s, e, key, then) ==
    IF s.fault # NoFault \/ ~HasKey(e, key) THEN s
    ELSE IF IsStr(e) THEN Raise(s, "TypeError")
    ELSE then

\* parse_group: `if host: group.add_host(host)`, the host in s.ret
add_parsed_host(s, group) ==
    IF s.fault # NoFault \/ s.ret = None THEN s
    ELSE IF group = None THEN Raise(s, "AttributeError")
    ELSE Group_add_host(s, group, s.ret)

\* parse_group: `if child: group.add_child(child)`, the child in s.ret
add_parsed_child(s, group) ==
    IF s.fault # NoFault \/ s.ret = None THEN s
    ELSE IF group = None THEN Raise(s, "AttributeError")
    ELSE Group_add_child(s, group, s.ret)

\* parse_group: `parent = find_group(parent_name, ...); group.add_parent(parent)`;
\* parent_name is <<>> when no branch bound it
add_parsed_parent(s, group, parent_name) ==
    IF s.fault # NoFault THEN s
    ELSE IF parent_name = <<>> THEN Raise(s, "UnboundLocalError")
    ELSE IF group = None THEN Raise(s, "AttributeError")
    ELSE Group_add_parent(s, group, find_group(parent_name[1], s.groups))

\* parse_host: `group.add_host(host)`, the group in s.ret
add_host_to_parsed(s, host) ==
    IF s.fault # NoFault THEN s
    ELSE IF s.ret = None THEN Raise(s, "AttributeError")
    ELSE Group_add_host(s, s.ret, host)

RECURSIVE parse_group(_, _), parse_host(_, _), parse_group_hosts(_, _, _, _),
          parse_group_children(_, _, _, _), parse_group_parents(_, _, _, _),
          parse_host_groups(_, _, _, _)

\* parse_group: the loop over entry['hosts']
parse_group_hosts(s, items, i, group) ==
    IF s.fault # NoFault \/ i > Len(items) THEN s
    ELSE parse_group_hosts(add_parsed_host(parse_host(s, items[i]), group), items, i + 1, group)

\* parse_group: the loop over entry['children'].  child_name is looked up in a
\* record child when entry has a 'group' key (KeyError when the child has none).
parse_group_children(s, e, i, group) ==
    IF s.fault # NoFault \/ i > Len(e.children) THEN s
    ELSE IF ~IsStr(e.children[i]) /\ "group" \in DOMAIN e /\ "group" \notin DOMAIN e.children[i]
         THEN Raise(s, "KeyError")
    ELSE parse_group_children(add_parsed_child(parse_group(s, e.children[i]), group), e, i + 1, group)

\* parse_group: the loop over entry['parents'].  parent_name stays unbound for a
\* record parent when entry has no 'group' key.
parse_group_parents(s, e, i, group) ==
    IF s.fault # NoFault \/ i > Len(e.parents) THEN s
    ELSE IF ~IsStr(e.parents[i]) /\ "group" \in DOMAIN e /\ "group" \notin DOMAIN e.parents[i]
         THEN Raise(s, "KeyError")
    ELSE parse_group_parents(
            add_parsed_parent(parse_group(s, e.parents[i]), group,
                IF IsStr(e.parents[i]) THEN <<e.parents[i].str>>
                ELSE IF "group" \in DOMAIN e THEN <<e.parents[i].group>>
                ELSE <<>>),
            e, i + 1, group)

\* parse_host: the loop over entry['groups']
parse_host_groups(s, items, i, host) ==
    IF s.fault # NoFault \/ i > Len(items) THEN s
    ELSE parse_host_groups(add_host_to_parsed(parse_group(s, items[i]), host), items, i + 1, host)

\* parse_group: `if type(entry) in [str, unicode]:`; group is in s.ret from here on
group_of_name(s, e) ==
    IF IsStr(e) THEN GetOrCreateGroup(s, e.str) ELSE Return(s, None)

\* parse_group: `if 'group' in entry:`
group_of_record(s, e) == Clause(s, e, "group", GetOrCreateGroup(s, e.group))

\* parse_group: `if 'label' in entry:`
group_label(s, e) ==
    Clause(s, e, "label",
        IF s.ret = None THEN Raise(s, "AttributeError")
        ELSE set_variable(s, <<"group", s.ret>>, e.label, Scalar(e.group)))

\* parse_group: `if 'import_vars' in entry:`
group_import_vars(s, e) ==
    Clause(s, e, "import_vars", import_vars(s, e.import_vars, <<"group", s.ret>>))

\* parse_group: `if 'vars' in entry:`
group_vars(s, e) == Clause(s, e, "vars", parse_vars(s, e.vars, <<"group", s.ret>>))

\* parse_group: `if 'hosts' in entry:`
group_hosts(s, e) ==
    Clause(s, e, "hosts", Return(parse_group_hosts(s, e.hosts, 1, s.ret), s.ret))

\* parse_group: `if 'children' in entry:`
group_children(s, e) ==
    Clause(s, e, "children", Return(parse_group_children(s, e, 1, s.ret), s.ret))

\* parse_group: `if 'parents' in entry:`
group_parents(s, e) ==
    Clause(s, e, "parents", Return(parse_group_parents(s, e, 1, s.ret), s.ret))

\* parse_group(entry)
parse_group(s, e) ==
    IF s.fault # NoFault THEN s
    ELSE group_parents(group_children(group_hosts(group_vars(group_import_vars(
            group_label(group_of_record(group_of_name(s, e), e), e), e), e), e), e), e)

\* parse_host: `if 'vars' in entry:`; host is in s.ret
host_vars(s, e) == Clause(s, e, "vars", parse_vars(s, e.vars, <<"host", s.ret>>))

\* parse_host: `if 'import_vars' in entry:`
host_import_vars(s, e) ==
    Clause(s, e, "import_vars", import_vars(s, e.import_vars, <<"host", s.ret>>))

\* parse_host: `if 'groups' in entry:`
host_groups(s, e) ==
    Clause(s, e, "groups", Return(parse_host_groups(s, e.groups, 1, s.ret), s.ret))

\* parse_host(entry)
parse_host(s, e) ==
    IF s.fault # NoFault THEN s
    ELSE IF IsStr(e) THEN GetOrCreateHost(s, e.str)
    ELSE IF "host" \in DOMAIN e THEN
        host_groups(host_import_vars(host_vars(GetOrCreateHost(s, e.host), e), e), e)
    ELSE Return(s, None)

\* parse_yaml: the store before the loop
InitialStore ==
    [groups |-> <<Group("all"), Group("_all")>>, hosts |-> <<>>, fault |-> NoFault, ret |-> None]

\* parse_yaml: `if 'group' in entry: parse_group(entry)`
entry_group(s, e) == IF HasKey(e, "group") THEN parse_group(s, e) ELSE s

\* parse_yaml: `if 'host' in entry: parse_host(entry)`
entry_host(s, e) == IF s.fault = NoFault /\ HasKey(e, "host") THEN parse_host(s, e) ELSE s

\* parse_yaml: one iteration of the loop over yaml_config
parse_entry(s, e) == entry_host(entry_group(s, e), e)

-----------------------------------------------------------------------------
(* resolution of variables *)

\* What a call returns: the mapping, or the exception it raised.
Returned(f) == [fault |-> NoFault, vars |-> f]
Raised(exc) == [fault |-> exc, vars |-> <<>>]

RECURSIVE Group_get_variables(_, _, _), Group_parents_variables(_, _, _, _, _)

\* Group.get_variables: the loop over self.parents, from the i-th on
Group_parents_variables(gs, self, i, acc, depth) ==
    IF i > Len(gs[self].parents) THEN Returned(acc)
    ELSE LET r == Group_get_variables(gs, gs[self].parents[i], depth + 1)
         IN  IF r.fault # NoFault THEN r
             ELSE Group_parents_variables(gs, self, i + 1, Update(acc, r.vars), depth)

\* Group.get_variables, `depth` frames deep: a call beyond the recursion limit
\* raises RuntimeError (maximum recursion depth exceeded)
Group_get_variables(gs, self, depth) ==
    IF depth > RecursionLimit THEN Raised("RuntimeError")
    ELSE LET r == Group_parents_variables(gs, self, 1, <<>>, depth)
         IN  IF r.fault # NoFault THEN r
             ELSE Returned(Update(r.vars, gs[self].vars))

\* Host.get_variables: the body of both loops, one mapping merged into result.
\* result[k].update(v) on a result[k] that is no dict raises AttributeError.
MergeVars(res, vs) ==
    IF \E k \in DOMAIN vs : IsDict(vs[k]) /\ k \in DOMAIN res /\ ~IsDict(res[k])
    THEN Raised("AttributeError")
    ELSE Returned([k \in (DOMAIN res) \cup (DOMAIN vs) |->
            IF k \notin DOMAIN vs THEN res[k]
            ELSE IF IsDict(vs[k]) /\ k \in DOMAIN res
                 THEN Dict(Update(res[k].dict, vs[k].dict))
            ELSE vs[k]])

RECURSIVE Host_groups_variables(_, _, _, _, _)
\* Host.get_variables: the loop over self.groups, from the i-th on
Host_groups_variables(gs, hs, self, i, acc) ==
    IF i > Len(hs[self].groups) THEN Returned(acc)
    ELSE LET r == Group_get_variables(gs, hs[self].groups[i], 1)
             m == MergeVars(acc, r.vars)
         IN  IF r.fault # NoFault THEN r
             ELSE IF m.fault # NoFault THEN m
             ELSE Host_groups_variables(gs, hs, self, i + 1, m.vars)

\* Host.get_variables
Host_get_variables(gs, hs, self) ==
    LET r == Host_groups_variables(gs, hs, self, 1, <<>>)
    IN  IF r.fault # NoFault THEN r ELSE MergeVars(r.vars, hs[self].vars)

-----------------------------------------------------------------------------
(* the queries *)

\* [x.name for x in list]
GroupNamesOf(gs, ids) == [i \in 1..Len(ids) |-> gs[ids[i]].name]
HostNamesOf(hs, ids) == [i \in 1..Len(ids) |-> hs[ids[i]].name]

RECURSIVE list_groups(_, _, _, _)
\* list mode: the loop over globals.groups, from the i-th on
list_groups(gs, hs, i, res) ==
    IF i > Len(gs) THEN res
    ELSE IF gs[i].name = "all" THEN list_groups(gs, hs, i + 1, res)
    ELSE list_groups(gs, hs, i + 1,
            Put(res, gs[i].name,
                [hosts |-> HostNamesOf(hs, gs[i].hosts),
                 vars |-> gs[i].vars,
                 children |-> GroupNamesOf(gs, gs[i].children),
                 parents |-> GroupNamesOf(gs, gs[i].parents)]))

\* list mode: result['_meta']['hostvars'][host.name] = host.get_variables(),
\* hv what get_variables returned
list_host(res, name, hv) ==
    IF hv.fault # NoFault THEN hv
    ELSE IF "hostvars" \notin DOMAIN res["_meta"] THEN Raised("KeyError")
    ELSE Returned([res EXCEPT !["_meta"].hostvars = Put(@, name, hv.vars)])

\* `if options.extra: k,v = options.extra.split("="); result[k] = v`; extra is
\* <<>> (None) or <<k, v>>
with_extra(r, extra) ==
    IF r.fault # NoFault \/ extra = <<>> THEN r
    ELSE Returned(Put(r.vars, extra[1], Scalar(extra[2])))

RECURSIVE list_hostvars(_, _, _, _, _)
\* list mode: the loop over globals.all_hosts.get_hosts(), from the i-th on;
\* r is [fault, vars] with the printed object in vars
list_hostvars(gs, hs, i, extra, r) ==
    IF r.fault # NoFault \/ i > Len(gs[all_hosts].hosts) THEN r
    ELSE list_hostvars(gs, hs, i + 1, extra,
            with_extra(list_host(r.vars, hs[gs[all_hosts].hosts[i]].name,
                                 Host_get_variables(gs, hs, gs[all_hosts].hosts[i])),
                       extra))

\* list mode (options.list_hosts)
list_mode(gs, hs, extra) ==
    LET res == list_groups(gs, hs, 1, [_meta |-> [hostvars |-> <<>>]])
    IN  list_hostvars(gs, hs, 1, extra, Returned(res))

\* host mode: `result = host.get_variables()`, host None when no member of
\* all_hosts has the name
host_variables(gs, hs, host) ==
    IF host = None THEN Raised("AttributeError") ELSE Host_get_variables(gs, hs, host)

\* host mode (options.host)
host_mode(gs, hs, name, extra) ==
    with_extra(host_variables(gs, hs, find_host(name, [groups |-> gs, hosts |-> hs])), extra)

-----------------------------------------------------------------------------
(* the inputs: the nodes of the document (the file format of the module's  *)
(* docstring) and the command line                                         *)

Str(s) == [str |-> s]
Var(k, v) == [list |-> << <<k, v>> >>]

S1 == Scalar("1")
S2 == Scalar("2")
DA == Dict([a |-> "1"])
DB == Dict([a |-> "2", b |-> "2"])
Values == {S1, S2, DA, DB}

DeclaredGroups == {"all", "g1", "g2"}

\* - group: n
\*   vars: [x: v]
GroupVarsEntries(ns, vs) == {[group |-> n, vars |-> Var("x", v)] : n \in ns, v \in vs}

\* - group: n
\*   children: [c]
ChildrenEntries(ns) == {[group |-> n, children |-> <<Str(c)>>] : n \in ns, c \in DeclaredGroups}

\* - group: n
\*   parents: [p]
ParentsEntries(ns) == {[group |-> n, parents |-> <<Str(p)>>] : n \in ns, p \in DeclaredGroups}

\* - group: n
\*   hosts: [h, ...]
GroupHostsEntries ==
    {[group |-> n, hosts |-> <<Str("h1")>>] : n \in {"g1", "g2"}}
    \cup {[group |-> "g1", hosts |-> <<Str("h2"), Str("h2")>>],
          [group |-> "_meta", hosts |-> <<Str("h1")>>],
          [group |-> "webhosts", hosts |-> <<Str("h2")>>]}

\* - host: h1
\*   vars: [x: v]
HostVarsEntries(vs) == {[host |-> "h1", vars |-> Var("x", v)] : v \in vs}

\* - host: h
\*   groups: [g, ...]
HostGroupsEntries ==
    {[host |-> "h1", groups |-> <<Str(g)>>] : g \in DeclaredGroups}
    \cup {[host |-> "h1", groups |-> <<Str("g1"), Str("g2")>>],
          [host |-> "h2", groups |-> <<Str("webhosts")>>]}

\* label, import_vars, the mapping form of vars, records with several keys,
\* nested records
OtherEntries ==
    {[group |-> "g1", label |-> "x"],
     [group |-> "g2", import_vars |-> <<"vars_yml">>],
     [host |-> "h2", import_vars |-> <<"missing_yml">>],
     [group |-> "g2", vars |-> [dict |-> [x |-> S2, y |-> DA]]],
     [group |-> "_all", parents |-> <<Str("g1")>>],
     [group |-> "g1", host |-> "h1"],
     [host |-> "h1", vars |-> Var("x", DA), groups |-> <<Str("g1"), Str("g2")>>],
     [group |-> "g2", hosts |-> <<Str("h1")>>, parents |-> <<Str("g1")>>],
     [group |-> "g1",
      children |-> <<[group |-> "g2",
                      hosts |-> <<[host |-> "h2", vars |-> Var("y", S1), groups |-> <<Str("g1")>>]>>]>>],
     [group |-> "g2", vars |-> Var("x", DA), hosts |-> <<Str("h1")>>,
      parents |-> <<[group |-> "g1", vars |-> Var("x", DB)]>>]}

\* The nodes a document is made of.
Entries ==
    GroupVarsEntries(DeclaredGroups, Values) \cup ChildrenEntries(DeclaredGroups)
    \cup ParentsEntries(DeclaredGroups) \cup GroupHostsEntries
    \cup HostVarsEntries(Values) \cup HostGroupsEntries \cup OtherEntries

\* The nodes of the documents the build alone is explored with, one node longer:
\* one value per variable, links declared by `all` and g1.
BuildEntries ==
    GroupVarsEntries(DeclaredGroups, {S1}) \cup ChildrenEntries({"all", "g1"})
    \cup ParentsEntries({"all", "g1"}) \cup GroupHostsEntries
    \cup HostVarsEntries({S1}) \cup HostGroupsEntries \cup OtherEntries

\* options.extra: None, or key=value split at "="
NoExtra == <<>>
Extras == {NoExtra, <<"env", "prod">>}
\* options.host
QueriedHosts == {"h1", "h3"}

-----------------------------------------------------------------------------
(* the program *)

Store == [groups |-> groups, hosts |-> hosts, fault |-> NoFault, ret |-> None]

Init ==
    /\ groups = InitialStore.groups
    /\ hosts = InitialStore.hosts
    /\ entry = NoEntry
    /\ count = 0
    /\ pc = "parse"
    /\ fault = NoFault
    /\ result = NoResult

\* parse_yaml: the next node of the document, one of `nodes`, is parsed; an
\* exception ends the run
ParseFrom(nodes) ==
    /\ pc = "parse"
    /\ count < MaxEntries
    /\ \E e \in nodes :
        LET s == parse_entry(Store, e)
        IN  /\ groups' = s.groups
            /\ hosts' = s.hosts
            /\ fault' = s.fault
            /\ entry' = e
            /\ pc' = IF s.fault = NoFault THEN "parse" ELSE "exit"
    /\ count' = count + 1
    /\ UNCHANGED result

ParseEntry == ParseFrom(Entries)

\* Finish(r): the query's outcome r is printed, or its exception ends the run
Finish(r) ==
    /\ fault' = r.fault
    /\ result' = IF r.fault = NoFault THEN [printed |-> r.vars] ELSE NoResult
    /\ pc' = "exit"
    /\ UNCHANGED <<groups, hosts, entry, count>>

\* the document is exhausted and --list was given
ListHosts ==
    /\ pc = "parse"
    /\ \E extra \in Extras : Finish(list_mode(groups, hosts, extra))

\* the document is exhausted and --host was given (without --list)
HostVars ==
    /\ pc = "parse"
    /\ \E name \in QueriedHosts, extra \in Extras : Finish(host_mode(groups, hosts, name, extra))

\* neither --list nor --host: parser.print_help()
PrintHelp ==
    /\ pc = "parse"
    /\ pc' = "exit"
    /\ UNCHANGED <<groups, hosts, entry, count, fault, result>>

Next == ParseEntry \/ ListHosts \/ HostVars \/ PrintHelp

Spec == Init /\ [][Next]_vars

\* The build alone (parse_yaml), before any query.
ParseBuildEntry == ParseFrom(BuildEntries)

NextBuild == ParseBuildEntry

SpecBuild == Init /\ [][NextBuild]_vars

-----------------------------------------------------------------------------
(* vocabulary of the properties *)

GroupIds == 1..Len(groups)
HostIds == 1..Len(hosts)
Keys == {"x", "y"}

NoDup(seq) == \A i, j \in 1..Len(seq) : i # j => seq[i] # seq[j]
IsPrefix(a, b) == Len(a) <= Len(b) /\ \A i \in 1..Len(a) : a[i] = b[i]
Field(e, key) == IF key \in DOMAIN e THEN e[key] ELSE <<>>

\* the variables host h resolves to, or the exception
Resolved(h) == Host_get_variables(groups, hosts, h)

\* the position of group g in host h's group list (0 when h is no member)
Joined(h, g) ==
    LET at == {i \in 1..Len(hosts[h].groups) : hosts[h].groups[i] = g}
    IN  IF at = {} THEN 0 ELSE Min(at)

RECURSIVE AncestorsWithin(_, _)
\* the groups reached from g by at most n parent links (n >= 1)
AncestorsWithin(g, n) ==
    LET direct == {groups[g].parents[i] : i \in 1..Len(groups[g].parents)}
    IN  IF n <= 1 THEN direct
        ELSE direct \cup UNION {AncestorsWithin(p, n - 1) : p \in direct}

\* no group is its own ancestor
Acyclic == \A g \in GroupIds : g \notin AncestorsWithin(g, Len(groups))

RECURSIVE GroupsNamedBy(_, _), HostsNamedBy(_, _)
\* the group names a node mentions; ctx is the kind of node it is parsed as
GroupsNamedBy(e, ctx) ==
    IF IsStr(e) THEN (IF ctx = "group" THEN {e.str} ELSE {})
    ELSE IF ctx = "group" THEN
        (IF "group" \in DOMAIN e THEN {e.group} ELSE {})
        \cup UNION {GroupsNamedBy(Field(e, "hosts")[i], "host") : i \in 1..Len(Field(e, "hosts"))}
        \cup UNION {GroupsNamedBy(Field(e, "children")[i], "group") : i \in 1..Len(Field(e, "children"))}
        \cup UNION {GroupsNamedBy(Field(e, "parents")[i], "group") : i \in 1..Len(Field(e, "parents"))}
    ELSE UNION {GroupsNamedBy(Field(e, "groups")[i], "group") : i \in 1..Len(Field(e, "groups"))}

\* the host names a node mentions
HostsNamedBy(e, ctx) ==
    IF IsStr(e) THEN (IF ctx = "host" THEN {e.str} ELSE {})
    ELSE IF ctx = "group" THEN
        UNION {HostsNamedBy(Field(e, "hosts")[i], "host") : i \in 1..Len(Field(e, "hosts"))}
        \cup UNION {HostsNamedBy(Field(e, "children")[i], "group") : i \in 1..Len(Field(e, "children"))}
        \cup UNION {HostsNamedBy(Field(e, "parents")[i], "group") : i \in 1..Len(Field(e, "parents"))}
    ELSE (IF "host" \in DOMAIN e THEN {e.host} ELSE {})
        \cup UNION {HostsNamedBy(Field(e, "groups")[i], "group") : i \in 1..Len(Field(e, "groups"))}

\* the names a top-level node mentions
TopGroups(e) ==
    (IF "group" \in DOMAIN e THEN GroupsNamedBy(e, "group") ELSE {})
    \cup (IF "host" \in DOMAIN e THEN GroupsNamedBy(e, "host") ELSE {})
TopHosts(e) ==
    (IF "group" \in DOMAIN e THEN HostsNamedBy(e, "group") ELSE {})
    \cup (IF "host" \in DOMAIN e THEN HostsNamedBy(e, "host") ELSE {})

GroupNameSet(gs) == {gs[i].name : i \in 1..Len(gs)}
HostNameSet(hs) == {hs[i].name : i \in 1..Len(hs)}

-----------------------------------------------------------------------------
(* C1 *)

\* C1: in every graph the build reaches, group c is in p's children list if and
\* only if p is in c's parents list, and no children or parents list holds the
\* same group twice.
C1_LinksSymmetric ==
    /\ \A p, c \in GroupIds : Mem(c, groups[p].children) <=> Mem(p, groups[c].parents)
    /\ \A g \in GroupIds : NoDup(groups[g].children) /\ NoDup(groups[g].parents)

-----------------------------------------------------------------------------
(* C2 *)

\* the node parsed last declares `all` as a child of its group
DeclaresChildAll ==
    /\ fault = NoFault
    /\ "group" \in DOMAIN entry
    /\ \E i \in 1..Len(Field(entry, "children")) :
        IsStr(entry.children[i]) /\ entry.children[i].str = "all"

\* C2: `all` has an empty parents list and is in no group's children list, and a
\* child link declared toward `all` is attached to `_all`: the declaring group
\* has `_all` among its children and `_all` has that group among its parents.
C2_AllFreeOfParents ==
    /\ groups[all_hosts].parents = <<>>
    /\ \A g \in GroupIds : ~Mem(all_hosts, groups[g].children)
    /\ DeclaresChildAll =>
        LET g == find_group(entry.group, groups)
        IN  Mem(meta, groups[g].children) /\ Mem(g, groups[meta].parents)

-----------------------------------------------------------------------------
(* C3 *)

\* C3: when group p, the only parent of c, and c both set key k to a mapping,
\* a host that joined c (and besides c only groups that have no parents and do
\* not set k, and that does not set k itself) resolves k to the key-wise merge
\* of p's mapping and c's, c's entries winning.
C3_DeepMergeAcrossHierarchy ==
    \A h \in HostIds, c \in GroupIds, p \in GroupIds, k \in Keys :
        ( /\ Mem(c, hosts[h].groups)
          /\ groups[c].parents = <<p>>
          /\ groups[p].parents = <<>>
          /\ k \in DOMAIN groups[p].vars /\ IsDict(groups[p].vars[k])
          /\ k \in DOMAIN groups[c].vars /\ IsDict(groups[c].vars[k])
          /\ k \notin DOMAIN hosts[h].vars
          /\ \A i \in 1..Len(hosts[h].groups) :
                LET g == hosts[h].groups[i]
                IN  g # c => groups[g].parents = <<>> /\ k \notin DOMAIN groups[g].vars )
        => /\ Resolved(h).fault = NoFault
           /\ k \in DOMAIN Resolved(h).vars
           /\ Resolved(h).vars[k] = Dict(Update(groups[p].vars[k].dict, groups[c].vars[k].dict))

-----------------------------------------------------------------------------
(* C4 *)

\* C4: when a host joined g1 before g2, both set key k to a scalar, and no
\* group the host joined after g2 sets k or has parents, the host resolves k to
\* its own value if it sets k, and to g2's value otherwise.
C4_ScalarPrecedence ==
    \A h \in HostIds, k \in Keys :
        \A i, j \in 1..Len(hosts[h].groups) :
            LET g1 == hosts[h].groups[i]
                g2 == hosts[h].groups[j]
            IN  ( /\ i < j
                  /\ k \in DOMAIN groups[g1].vars /\ ~IsDict(groups[g1].vars[k])
                  /\ k \in DOMAIN groups[g2].vars /\ ~IsDict(groups[g2].vars[k])
                  /\ \A m \in (j + 1)..Len(hosts[h].groups) :
                        LET g == hosts[h].groups[m]
                        IN  groups[g].parents = <<>> /\ k \notin DOMAIN groups[g].vars )
                => /\ Resolved(h).fault = NoFault
                   /\ k \in DOMAIN Resolved(h).vars
                   /\ Resolved(h).vars[k] =
                        IF k \in DOMAIN hosts[h].vars THEN hosts[h].vars[k] ELSE groups[g2].vars[k]
-----------------------------------------------------------------------------
(* C5 *)

\* C5: in every graph the build reaches, host h is in g's member list if and
\* only if g is in h's group list, no member list or group list holds an entry
\* twice, and every host is a member of `all` and of `_all`.
C5_MembershipSymmetric ==
    /\ \A h \in HostIds, g \in GroupIds : Mem(h, groups[g].hosts) <=> Mem(g, hosts[h].groups)
    /\ \A g \in GroupIds : NoDup(groups[g].hosts)
    /\ \A h \in HostIds : NoDup(hosts[h].groups)
    /\ \A h \in HostIds : Mem(h, groups[all_hosts].hosts) /\ Mem(h, groups[meta].hosts)

\* The node parsed last declares one host-group link more than once (the same
\* bare host twice in a group's `hosts`, or a host record nested in the group
\* it names in `groups`), and the link is in the graph.
C5_Witness ==
    /\ fault = NoFault
    /\ "group" \in DOMAIN entry
    /\ \/ /\ Len(Field(entry, "hosts")) = 2
          /\ entry.hosts[1] = entry.hosts[2]
          /\ IsStr(entry.hosts[1])
          /\ \E h \in HostIds : hosts[h].name = entry.hosts[1].str
                /\ Mem(h, groups[find_group(entry.group, groups)].hosts)
       \/ /\ Len(Field(entry, "children")) = 1
          /\ ~IsStr(entry.children[1])
          /\ Len(Field(entry.children[1], "hosts")) = 1
          /\ ~IsStr(entry.children[1].hosts[1])
          /\ Str(entry.children[1].group) \in
                {Field(entry.children[1].hosts[1], "groups")[i] :
                    i \in 1..Len(Field(entry.children[1].hosts[1], "groups"))}
          /\ \E h \in HostIds : hosts[h].name = entry.children[1].hosts[1].host
                /\ Mem(h, groups[find_group(entry.children[1].group, groups)].hosts)

-----------------------------------------------------------------------------
(* C6 *)

\* no two Group objects and no two Host objects have the same name
C6_UniqueNames ==
    /\ \A i, j \in GroupIds : groups[i].name = groups[j].name => i = j
    /\ \A i, j \in HostIds : hosts[i].name = hosts[j].name => i = j

\* the group names a node declares with a record (the others are bare names)
RECURSIVE GroupRecordsIn(_, _)
GroupRecordsIn(e, ctx) ==
    IF IsStr(e) THEN {}
    ELSE IF ctx = "group" THEN
        (IF "group" \in DOMAIN e THEN {e.group} ELSE {})
        \cup UNION {GroupRecordsIn(Field(e, "hosts")[i], "host") : i \in 1..Len(Field(e, "hosts"))}
        \cup UNION {GroupRecordsIn(Field(e, "children")[i], "group") : i \in 1..Len(Field(e, "children"))}
        \cup UNION {GroupRecordsIn(Field(e, "parents")[i], "group") : i \in 1..Len(Field(e, "parents"))}
    ELSE UNION {GroupRecordsIn(Field(e, "groups")[i], "group") : i \in 1..Len(Field(e, "groups"))}

\* One step of the build: every entity is still there under its name, with the
\* links it had (lists only grow at the end) and the variables it had set; a
\* group's variables change only if the node declares it with a record; and
\* an entity is created only for a name that was not registered, one per name.
C6_Kept ==
    /\ Len(groups') >= Len(groups)
    /\ Len(hosts') >= Len(hosts)
    /\ \A i \in GroupIds :
        /\ groups'[i].name = groups[i].name
        /\ IsPrefix(groups[i].hosts, groups'[i].hosts)
        /\ IsPrefix(groups[i].children, groups'[i].children)
        /\ IsPrefix(groups[i].parents, groups'[i].parents)
        /\ DOMAIN groups[i].vars \subseteq DOMAIN groups'[i].vars
        /\ groups'[i].vars # groups[i].vars =>
                "group" \in DOMAIN entry' /\ groups[i].name \in GroupRecordsIn(entry', "group")
    /\ \A i \in HostIds :
        /\ hosts'[i].name = hosts[i].name
        /\ IsPrefix(hosts[i].groups, hosts'[i].groups)
        /\ DOMAIN hosts[i].vars \subseteq DOMAIN hosts'[i].vars
    /\ Len(groups') - Len(groups) <= Cardinality(TopGroups(entry') \ GroupNameSet(groups))
    /\ Len(hosts') - Len(hosts) <= Cardinality(TopHosts(entry') \ HostNameSet(hosts))
    /\ \A i \in (Len(groups) + 1)..Len(groups') : groups'[i].name \notin GroupNameSet(groups)
    /\ \A i \in (Len(hosts) + 1)..Len(hosts') : hosts'[i].name \notin HostNameSet(hosts)

\* C6: at every point of the build no two groups and no two hosts share a name,
\* and a step that resolves registered names creates nothing for them and keeps
\* the entities with the variables and links they had.
C6_IdentityMap == []C6_UniqueNames /\ [][C6_Kept]_vars

\* The node parsed last names its own group again inside (a record nested in it
\* refers to it by bare name); the group was registered before with a variable
\* set, is still the only one of its name and still has the variable.
C6_Witness ==
    /\ fault = NoFault
    /\ count >= 2
    /\ "group" \in DOMAIN entry
    /\ Len(Field(entry, "children")) = 1
    /\ ~IsStr(entry.children[1])
    /\ entry.group \in GroupsNamedBy(entry.children[1], "group")
    /\ Cardinality({i \in GroupIds : groups[i].name = entry.group}) = 1
    /\ "x" \in DOMAIN groups[find_group(entry.group, groups)].vars

-----------------------------------------------------------------------------
(* C7 *)

\* C7: when p is the only parent of c and sets key k, a host joined c but not p,
\* the host does not set k, the groups it joined before c set no mapping for k
\* and have no parents, and the groups it joined after c do not set k and have
\* no parents, the host resolves k to p's value if c does not set k, and to c's
\* value if c sets k to a scalar.
C7_GroupInheritance ==
    \A h \in HostIds, c \in GroupIds, p \in GroupIds, k \in Keys :
        ( /\ Joined(h, c) > 0
          /\ Joined(h, p) = 0
          /\ groups[c].parents = <<p>>
          /\ k \in DOMAIN groups[p].vars
          /\ k \notin DOMAIN hosts[h].vars
          /\ k \in DOMAIN groups[c].vars => ~IsDict(groups[c].vars[k])
          /\ \A i \in 1..Len(hosts[h].groups) :
                LET g == hosts[h].groups[i]
                IN  g # c =>
                    /\ groups[g].parents = <<>>
                    /\ k \in DOMAIN groups[g].vars => i < Joined(h, c) /\ ~IsDict(groups[g].vars[k]) )
        => /\ Resolved(h).fault = NoFault
           /\ k \in DOMAIN Resolved(h).vars
           /\ Resolved(h).vars[k] =
                IF k \in DOMAIN groups[c].vars THEN groups[c].vars[k] ELSE groups[p].vars[k]

-----------------------------------------------------------------------------
(* C8 *)

\* C8: for every built graph the listing is printed, has exactly one top-level
\* key per group name other than `all` besides `_meta`, each holding the group's
\* direct host names, its own vars, its children names and its parents names,
\* and `_meta.hostvars` maps every host to its resolved variables.
C8_ListingExact ==
    (pc = "parse") =>
        LET r == list_mode(groups, hosts, NoExtra)
        IN  /\ r.fault = NoFault
            /\ DOMAIN r.vars = (GroupNameSet(groups) \ {"all"}) \cup {"_meta"}
            /\ \A g \in GroupIds : groups[g].name # "all" =>
                    r.vars[groups[g].name] =
                        [hosts |-> HostNamesOf(hosts, groups[g].hosts),
                         vars |-> groups[g].vars,
                         children |-> GroupNamesOf(groups, groups[g].children),
                         parents |-> GroupNamesOf(groups, groups[g].parents)]
            /\ "hostvars" \in DOMAIN r.vars["_meta"]
            /\ DOMAIN r.vars["_meta"].hostvars = HostNameSet(hosts)
            /\ \A h \in HostIds :
                    /\ Resolved(h).fault = NoFault
                    /\ r.vars["_meta"].hostvars[hosts[h].name] = Resolved(h).vars

-----------------------------------------------------------------------------
(* C9 *)

\* C9: after the build of any document, cyclic parent links included, resolving
\* a host's variables does not run into the recursion limit.
C9_CyclesTolerated ==
    \A h \in HostIds : Resolved(h).fault # "RuntimeError"

-----------------------------------------------------------------------------
(* C10 *)

\* the merge rule as stated: a later scalar replaces, a later mapping replaces
\* an earlier scalar, two mappings merge key by key, the later one winning
StatedMerge(res, vs) ==
    [k \in (DOMAIN res) \cup (DOMAIN vs) |->
        IF k \notin DOMAIN vs THEN res[k]
        ELSE IF k \in DOMAIN res /\ IsDict(res[k]) /\ IsDict(vs[k])
             THEN Dict(Update(res[k].dict, vs[k].dict))
        ELSE vs[k]]

RECURSIVE StatedGroupsMerge(_, _, _)
\* the stated rule over the host's groups from the i-th on, in membership order
StatedGroupsMerge(h, i, acc) ==
    IF i > Len(hosts[h].groups) THEN acc
    ELSE StatedGroupsMerge(h, i + 1,
            StatedMerge(acc, Group_get_variables(groups, hosts[h].groups[i], 1).vars))

\* C10: in a graph with acyclic parent links, resolving any host returns the
\* mapping the stated merge rule gives over its groups in membership order and
\* then its own vars, and raises nothing.
C10_ResolutionTotal ==
    Acyclic =>
        \A h \in HostIds :
            Resolved(h) = Returned(StatedMerge(StatedGroupsMerge(h, 1, <<>>), hosts[h].vars))

====
